---- MODULE Spec2Model ----
(***************************************************************************)
(* A model of wordchain (src/src/wordchain/wordchain.py): WordGraph,       *)
(* WordChainer, WordChain and WordChainerCollection.                       *)
(*                                                                         *)
(* A word is a sequence of characters.  The characters are two lowercase   *)
(* letters, one alphabetic character that is not an ASCII lowercase letter *)
(* ("A": str.isalpha accepts it, string.ascii_lowercase does not hold it)  *)
(* and one non-alphabetic character ("1").                                 *)
(***************************************************************************)
EXTENDS Integers, Sequences, FiniteSets, TLC

VARIABLES pc, arg, word_graph, word_chainer, collection, calls, computed, queries, ret

vars == <<pc, arg, word_graph, word_chainer, collection, calls, computed, queries, ret>>

----------------------------------------------------------------------------
(* Bounds of the model *)

\* longest word of the universe
MaxLen == 2
\* longest list handed to WordGraph
MaxWords == 3
\* largest word set handed to WordChainer
MaxChainerWords == 4
\* longest mixed list handed to WordChainerCollection
MaxMixedWords == 3
\* most get_graph / build_word_graph calls made on one WordGraph
MaxCalls == 3
\* most neighbours / get_chains calls made on one object
MaxQueries == 1

----------------------------------------------------------------------------
(* Characters and words *)

\* string.ascii_lowercase, cut down to its first two letters
ascii_lowercase == <<"a", "b">>

Range(s) == {s[i] : i \in DOMAIN s}

\* the characters str.isalpha accepts
Alphabetic == Range(ascii_lowercase) \cup {"A"}

Char == Alphabetic \cup {"1"}

Word == UNION {[1..n -> Char] : n \in 0..MaxLen}

\* str.isalpha: at least one character, and all of them alphabetic
isalpha(word) == Len(word) > 0 /\ \A i \in 1..Len(word) : word[i] \in Alphabetic

RECURSIVE SetToSeq(_)
\* list(a_set): the members, each once, in an order the set chooses
SetToSeq(S) ==
    IF S = {} THEN <<>>
    ELSE LET x == CHOOSE y \in S : TRUE IN <<x>> \o SetToSeq(S \ {x})

\* the empty dict
EmptyDict == [w \in {} |-> <<>>]

----------------------------------------------------------------------------
(* WordGraph *)

RECURSIVE ScanLengthFirst(_, _, _)
\* the loop of WordGraph.__init__ with its two checks in the other order
ScanLengthFirst(word_list, length, i) ==
    IF i > Len(word_list) THEN "none"
    ELSE IF Len(word_list[i]) # length THEN "LengthMismatchException"
    ELSE IF ~isalpha(word_list[i]) THEN "NonAlphaException"
    ELSE ScanLengthFirst(word_list, length, i + 1)

RECURSIVE ScanWords(_, _, _)
\* the loop of WordGraph.__init__ from its i-th word on: the exception it raises
ScanWords(word_list, length, i) ==
    IF i > Len(word_list) THEN "none"
    ELSE IF ~isalpha(word_list[i]) THEN "NonAlphaException"
    ELSE IF Len(word_list[i]) # length THEN "LengthMismatchException"
    ELSE ScanWords(word_list, length, i + 1)

\* a WordGraph that was not constructed
NoWordGraph == [word_length |-> 0, word_list |-> {}, graph |-> EmptyDict]

\* WordGraph.__init__: the exception raised ("none": none) and the object
WordGraph__init__(word_list) ==
    IF Len(word_list) = 0
    THEN [raised |-> "EmptyWordListException", self |-> NoWordGraph]
    ELSE LET length == Len(word_list[1])
             raised == ScanWords(word_list, length, 1)
         IN  IF raised # "none"
             THEN [raised |-> raised, self |-> NoWordGraph]
             ELSE [raised |-> "none",
                   self   |-> [word_length |-> length,
                               word_list   |-> Range(word_list),
                               graph       |-> EmptyDict]]

\* f"{word[:index]}{letter}{word[index + 1 :]}", index counted from 1
Substitute(word, index, letter) == [word EXCEPT ![index] = letter]

\* WordGraph.neighbours
neighbours(self, word) ==
    LET candidates == {Substitute(word, index, ascii_lowercase[l]) :
                           index \in 1..Len(word), l \in 1..Len(ascii_lowercase)}
        nn_list    == candidates \cap self.word_list
    IN  SetToSeq(nn_list \ {word})

\* a build_word_graph that gives a key only to the words that have neighbours
build_word_graph_connected_only(self) ==
    [self EXCEPT !.graph = [word \in {w \in self.word_list : neighbours(self, w) # <<>>}
                               |-> neighbours(self, word)]]

\* WordGraph.build_word_graph: the object afterwards
build_word_graph(self) ==
    [self EXCEPT !.graph = [word \in self.word_list |-> neighbours(self, word)]]

\* a get_graph that takes the stored graph for missing whatever it holds
graph_never_stored(self) == TRUE

\* "not self.graph" in WordGraph.get_graph
graph_is_empty(self) == DOMAIN self.graph = {}

\* WordGraph.get_graph: the object afterwards
get_graph(self) == IF graph_is_empty(self) THEN build_word_graph(self) ELSE self

----------------------------------------------------------------------------
(* networkx, as WordChainer uses it: nx.DiGraph(dict of lists) and         *)
(* nx.all_shortest_paths(G, source, target) on an unweighted graph, which  *)
(* is nx.predecessor followed by the walk back along the predecessors.     *)

\* nx.DiGraph(d): a node per key and per listed neighbour, an edge key -> neighbour
DiGraph(d) ==
    LET nodes == DOMAIN d \cup UNION {Range(d[k]) : k \in DOMAIN d}
    IN  [nodes |-> nodes,
         adj   |-> [n \in nodes |-> IF n \in DOMAIN d THEN Range(d[n]) ELSE {}]]

\* the graph of a WordChainer that was not constructed
NoDiGraph == [nodes |-> {}, adj |-> EmptyDict]

RECURSIVE predecessor_levels(_, _, _)
\* the while loop of nx.predecessor: thislevel is the level being expanded,
\* pred maps every node seen so far to its predecessors one level up
predecessor_levels(G, thislevel, pred) ==
    LET reached   == UNION {G.adj[v] : v \in thislevel}
        nextlevel == reached \ DOMAIN pred
        pred2     == [w \in DOMAIN pred \cup nextlevel |->
                         IF w \in DOMAIN pred THEN pred[w]
                         ELSE {v \in thislevel : w \in G.adj[v]}]
    IN  IF nextlevel = {} THEN pred ELSE predecessor_levels(G, nextlevel, pred2)

\* nx.predecessor(G, source), for a source that is a node of G
predecessor(G, source) ==
    predecessor_levels(G, {source}, [w \in {source} |-> {}])

RECURSIVE build_paths(_, _, _, _)
\* _build_paths_from_predecessors: the paths that end with <<node>> \o suffix;
\* seen holds the nodes of the stack
build_paths(source, pred, node, suffix) ==
    LET here == <<node>> \o suffix
        seen == Range(here)
    IN  (IF node = source THEN {here} ELSE {})
        \cup UNION {build_paths(source, pred, p, here) : p \in pred[node] \ seen}

\* nx.all_shortest_paths(G, source, target), consumed to the end: the
\* exception raised ("none": none) and the paths yielded
all_shortest_paths(G, source, target) ==
    IF source \notin G.nodes
    THEN [raised |-> "NodeNotFound", paths |-> {}]
    ELSE LET pred == predecessor(G, source)
         IN  IF target \notin DOMAIN pred
             THEN [raised |-> "NetworkXNoPath", paths |-> {}]
             ELSE [raised |-> "none",
                   paths  |-> build_paths(source, pred, target, <<>>)]

----------------------------------------------------------------------------
(* WordChain and WordChainer *)

\* WordChain.__init__
WordChain(start_word, end_word, paths) ==
    [start_word |-> start_word, end_word |-> end_word, paths |-> paths]

\* a WordChainer that was not constructed
NoWordChainer == [word_graph |-> NoWordGraph, nx_graph |-> NoDiGraph]

\* WordChainer.__init__: the exception raised ("none": none) and the object
WordChainer__init__(word_list) ==
    LET wg == WordGraph__init__(word_list)
    IN  IF wg.raised # "none"
        THEN [raised |-> wg.raised, self |-> NoWordChainer]
        ELSE LET built == get_graph(wg.self)
             IN  [raised |-> "none",
                  self   |-> [word_graph |-> built, nx_graph |-> DiGraph(built.graph)]]

\* the exceptions the try of WordChainer.get_chains catches
Caught == {"NetworkXNoPath", "NodeNotFound"}

\* a get_chains that hands the two words to the search in the other order
get_chains_swapped(self, start_word, end_word) ==
    IF Len(start_word) # Len(end_word)
    THEN [raised |-> "LengthMismatchException", chain |-> WordChain(<<>>, <<>>, {})]
    ELSE LET found == all_shortest_paths(self.nx_graph, end_word, start_word)
         IN  [raised |-> IF found.raised \in Caught THEN "none" ELSE found.raised,
              chain  |-> WordChain(start_word, end_word, found.paths)]

\* a get_chains whose try catches NetworkXNoPath only
get_chains_no_path_only(self, start_word, end_word) ==
    IF Len(start_word) # Len(end_word)
    THEN [raised |-> "LengthMismatchException", chain |-> WordChain(<<>>, <<>>, {})]
    ELSE LET found == all_shortest_paths(self.nx_graph, start_word, end_word)
         IN  [raised |-> IF found.raised = "NetworkXNoPath" THEN "none" ELSE found.raised,
              chain  |-> WordChain(start_word, end_word, found.paths)]

\* a get_chains without the comparison of the two lengths
get_chains_unchecked(self, start_word, end_word) ==
    LET found == all_shortest_paths(self.nx_graph, start_word, end_word)
    IN  [raised |-> IF found.raised \in Caught THEN "none" ELSE found.raised,
         chain  |-> WordChain(start_word, end_word, found.paths)]

\* WordChainer.get_chains: the exception raised ("none": none) and the WordChain
get_chains(self, start_word, end_word) ==
    IF Len(start_word) # Len(end_word)
    THEN [raised |-> "LengthMismatchException", chain |-> WordChain(<<>>, <<>>, {})]
    ELSE LET found == all_shortest_paths(self.nx_graph, start_word, end_word)
         IN  [raised |-> IF found.raised \in Caught THEN "none" ELSE found.raised,
              chain  |-> WordChain(start_word, end_word, found.paths)]

----------------------------------------------------------------------------
(* WordChainerCollection *)

RECURSIVE partition_overwrite(_, _, _)
\* the loop of WordChainerCollection.__init__ with "= [word]" for ".append(word)"
partition_overwrite(word_list, i, word_lists) ==
    IF i > Len(word_list) THEN word_lists
    ELSE LET word == word_list[i]
             n    == Len(word)
         IN  partition_overwrite(word_list, i + 1,
                 [k \in DOMAIN word_lists \cup {n} |->
                     IF k = n THEN <<word>> ELSE word_lists[k]])

RECURSIVE partition(_, _, _)
\* the loop of WordChainerCollection.__init__ from the i-th word on:
\* self.word_lists.setdefault(len(word), []).append(word)
partition(word_list, i, word_lists) ==
    IF i > Len(word_list) THEN word_lists
    ELSE LET word == word_list[i]
             n    == Len(word)
             old  == IF n \in DOMAIN word_lists THEN word_lists[n] ELSE <<>>
         IN  partition(word_list, i + 1,
                 [k \in DOMAIN word_lists \cup {n} |->
                     IF k = n THEN Append(old, word) ELSE word_lists[k]])

\* a WordChainerCollection that was not constructed
NoCollection ==
    [original_list |-> <<>>,
     word_lists    |-> [k \in {} |-> <<>>],
     word_chainers |-> [k \in {} |-> NoWordChainer]]

\* WordChainerCollection.__init__: the exception raised ("none": none) and the
\* object.  The chainers are built in the order the lengths first occur in the
\* list, and the first construction that raises ends the constructor.
WordChainerCollection__init__(word_list) ==
    LET word_lists == partition(word_list, 1, [k \in {} |-> <<>>])
        built      == [k \in DOMAIN word_lists |-> WordChainer__init__(word_lists[k])]
        failing    == {i \in 1..Len(word_list) : built[Len(word_list[i])].raised # "none"}
    IN  IF failing # {}
        THEN LET i == CHOOSE j \in failing : \A k \in failing : j <= k
             IN  [raised |-> built[Len(word_list[i])].raised, self |-> NoCollection]
        ELSE [raised |-> "none",
              self   |-> [original_list |-> word_list,
                          word_lists    |-> word_lists,
                          word_chainers |-> [k \in DOMAIN word_lists |-> built[k].self]]]

\* WordChainerCollection.get_chains: the exception raised and the WordChain
collection_get_chains(self, start_word, end_word) ==
    IF Len(start_word) \notin DOMAIN self.word_chainers
    THEN [raised |-> "none", chain |-> WordChain(start_word, end_word, {})]
    ELSE get_chains(self.word_chainers[Len(start_word)], start_word, end_word)

----------------------------------------------------------------------------
(* The state: one object under construction or in use (pc: "new" before    *)
(* its constructor ran, "failed" when the constructor raised), the word    *)
(* list the constructor takes (arg), the outcome of the last call (ret),   *)
(* and for a WordGraph the get_graph / build_word_graph calls made so far  *)
(* (calls), how often build_word_graph computed the neighbours of each     *)
(* word (computed), and the number of neighbours / get_chains calls made   *)
(* (queries).                                                              *)

NoRet == [op |-> "none", args |-> <<>>, raised |-> "none", list |-> <<>>, paths |-> {}]

Returned(op, args, raised, list, paths) ==
    [op |-> op, args |-> args, raised |-> raised, list |-> list, paths |-> paths]

\* the lists of at most n words
Lists(n) == UNION {[1..k -> Word] : k \in 0..n}

RECURSIVE SubsetsUpTo(_, _)
\* the subsets of S of at most n members
SubsetsUpTo(S, n) ==
    IF n = 0 THEN {{}}
    ELSE LET smaller == SubsetsUpTo(S, n - 1)
         IN  smaller \cup {T \cup {x} : T \in smaller, x \in S}

\* the word lists a WordChainer accepts, up to order and repetition (the
\* constructor keeps set(word_list) only), of at most n words: the non-empty
\* sets of alphabetic words of one length
AcceptedLists(n) ==
    {SetToSeq(T) :
        T \in UNION {SubsetsUpTo({w \in Word : isalpha(w) /\ Len(w) = k}, n) :
                        k \in 1..MaxLen} \ {{}}}

\* the object named is in use and may be queried once more
CanQuery(object) == pc = object /\ queries < MaxQueries

Unused ==
    /\ word_graph = NoWordGraph
    /\ word_chainer = NoWordChainer
    /\ collection = NoCollection
    /\ calls = <<>>
    /\ computed = EmptyDict
    /\ queries = 0
    /\ ret = NoRet

(* WordGraph *)

InitGraph == pc = "new" /\ arg \in Lists(MaxWords) /\ Unused

\* WordGraph(arg)
NewWordGraph ==
    /\ pc = "new"
    /\ LET r == WordGraph__init__(arg)
       IN  /\ pc' = IF r.raised = "none" THEN "graph" ELSE "failed"
           /\ word_graph' = r.self
           /\ computed' = [w \in r.self.word_list |-> 0]
           /\ ret' = Returned("WordGraph", <<>>, r.raised, <<>>, {})
    /\ UNCHANGED <<arg, word_chainer, collection, calls, queries>>

\* WordChainer(arg)
NewWordChainer ==
    /\ pc = "new"
    /\ LET r == WordChainer__init__(arg)
       IN  /\ pc' = IF r.raised = "none" THEN "chainer" ELSE "failed"
           /\ word_chainer' = r.self
           /\ ret' = Returned("WordChainer", <<>>, r.raised, <<>>, {})
    /\ UNCHANGED <<arg, word_graph, collection, calls, computed, queries>>

\* word_graph.get_graph()
GetGraph ==
    /\ pc = "graph"
    /\ Len(calls) < MaxCalls
    /\ word_graph' = get_graph(word_graph)
    /\ computed' = IF graph_is_empty(word_graph)
                   THEN [w \in DOMAIN computed |-> computed[w] + 1]
                   ELSE computed
    /\ calls' = Append(calls, "get_graph")
    /\ ret' = Returned("get_graph", <<>>, "none", <<>>, {})
    /\ UNCHANGED <<pc, arg, word_chainer, collection, queries>>

\* word_graph.build_word_graph()
BuildWordGraph ==
    /\ pc = "graph"
    /\ Len(calls) < MaxCalls
    /\ word_graph' = build_word_graph(word_graph)
    /\ computed' = [w \in DOMAIN computed |-> computed[w] + 1]
    /\ calls' = Append(calls, "build_word_graph")
    /\ ret' = Returned("build_word_graph", <<>>, "none", <<>>, {})
    /\ UNCHANGED <<pc, arg, word_chainer, collection, queries>>

\* word_graph.neighbours(word)
Neighbours(word) ==
    /\ CanQuery("graph")
    /\ queries' = queries + 1
    /\ ret' = Returned("neighbours", <<word>>, "none", neighbours(word_graph, word), {})
    /\ UNCHANGED <<pc, arg, word_graph, word_chainer, collection, calls, computed>>

NextGraph ==
    \/ NewWordGraph
    \/ NewWordChainer
    \/ GetGraph
    \/ BuildWordGraph
    \/ CanQuery("graph") /\ \E word \in Word : Neighbours(word)

SpecGraph == InitGraph /\ [][NextGraph]_vars

(* WordChainer *)

InitChainer == pc = "new" /\ arg \in AcceptedLists(MaxChainerWords) /\ Unused

\* word_chainer.get_chains(start_word, end_word)
GetChains(start_word, end_word) ==
    /\ CanQuery("chainer")
    /\ queries' = queries + 1
    /\ LET r == get_chains(word_chainer, start_word, end_word)
       IN  ret' = Returned("get_chains", <<start_word, end_word>>, r.raised,
                           <<>>, r.chain.paths)
    /\ UNCHANGED <<pc, arg, word_graph, word_chainer, collection, calls, computed>>

NextChainer ==
    \/ NewWordChainer
    \/ CanQuery("chainer")
          /\ \E start_word, end_word \in Word : GetChains(start_word, end_word)

SpecChainer == InitChainer /\ [][NextChainer]_vars

(* WordChainerCollection *)

InitCollection == pc = "new" /\ arg \in Lists(MaxMixedWords) /\ Unused

\* WordChainerCollection(arg)
NewCollection ==
    /\ pc = "new"
    /\ LET r == WordChainerCollection__init__(arg)
       IN  /\ pc' = IF r.raised = "none" THEN "collection" ELSE "failed"
           /\ collection' = r.self
           /\ ret' = Returned("WordChainerCollection", <<>>, r.raised, <<>>, {})
    /\ UNCHANGED <<arg, word_graph, word_chainer, calls, computed, queries>>

\* collection.get_chains(start_word, end_word)
CollectionGetChains(start_word, end_word) ==
    /\ CanQuery("collection")
    /\ queries' = queries + 1
    /\ LET r == collection_get_chains(collection, start_word, end_word)
       IN  ret' = Returned("collection.get_chains", <<start_word, end_word>>,
                           r.raised, <<>>, r.chain.paths)
    /\ UNCHANGED <<pc, arg, word_graph, word_chainer, collection, calls, computed>>

NextCollection ==
    \/ NewCollection
    \/ CanQuery("collection")
          /\ \E start_word, end_word \in Word :
                 CollectionGetChains(start_word, end_word)

SpecCollection == InitCollection /\ [][NextCollection]_vars

----------------------------------------------------------------------------
(* Properties *)

\* the positions where two words of one length differ
Differing(v, w) == {i \in 1..Len(v) : v[i] # w[i]}

\* a "neighbour" of the glossary: same length, exactly one position differs
OneLetterApart(v, w) == Len(v) = Len(w) /\ Cardinality(Differing(v, w)) = 1

NoDuplicates(s) == \A i, j \in 1..Len(s) : s[i] = s[j] => i = j

Min(S) == CHOOSE x \in S : \A y \in S : x <= y

RECURSIVE WalksFrom(_, _, _)
\* the walks of k words in the adjacency map that begin with start
WalksFrom(graph, start, k) ==
    IF k = 1
    THEN IF start \in DOMAIN graph THEN {<<start>>} ELSE {}
    ELSE UNION {{Append(p, b) : b \in Range(graph[p[Len(p)]])} :
                   p \in WalksFrom(graph, start, k - 1)}

\* the walks of k words from start to end
Walks(graph, start, end, k) == {p \in WalksFrom(graph, start, k) : p[k] = end}

\* the numbers of words of the walks from start to end; a shortest walk
\* repeats no word, so it has at most as many words as the map has keys
WalkLengths(graph, start, end) ==
    {k \in 1..Cardinality(DOMAIN graph) : Walks(graph, start, end, k) # {}}

\* all walks from start to end of the least number of words
ShortestWalks(graph, start, end) ==
    IF WalkLengths(graph, start, end) = {} THEN {}
    ELSE Walks(graph, start, end, Min(WalkLengths(graph, start, end)))

\* the adjacency map of the WordChainer in use
ChainerGraph == word_chainer.word_graph.graph

\* C1: get_chains(start, end) on two words of one length returns exactly the
\* walks from start to end in the adjacency map that have the least number of
\* words: each begins with start, ends with end and follows edges of the map,
\* none is longer than any walk from start to end, and none of them is missing.
C1_AllShortestPaths ==
    (ret.op = "get_chains" /\ Len(ret.args[1]) = Len(ret.args[2]))
        => /\ ret.raised = "none"
           /\ ret.paths = ShortestWalks(ChainerGraph, ret.args[1], ret.args[2])

\* two shortest paths of three words were returned
C1_Witness ==
    /\ ret.op = "get_chains"
    /\ Cardinality(ret.paths) = 2
    /\ \A p \in ret.paths : Len(p) = 3

\* C5: get_chains(A, A) for a word A of the word set returns the one path <<A>>
C5_SameWord ==
    (/\ ret.op = "get_chains"
     /\ ret.args[1] = ret.args[2]
     /\ ret.args[1] \in word_chainer.word_graph.word_list)
        => ret.raised = "none" /\ ret.paths = {<<ret.args[1]>>}

\* get_chains(A, A) returned for a word A that has no neighbours, in a word
\* set that has other words
C5_Witness ==
    /\ ret.op = "get_chains"
    /\ ret.args[1] = ret.args[2]
    /\ ret.args[1] \in word_chainer.word_graph.word_list
    /\ ChainerGraph[ret.args[1]] = <<>>
    /\ Cardinality(word_chainer.word_graph.word_list) > 1
    /\ ret.paths = {<<ret.args[1]>>}

\* C6: get_chains on two words of one length returns no path and raises
\* nothing when start is not in the word set, end is not in the word set, or
\* no walk of the adjacency map leads from start to end
C6_EmptyResult ==
    (/\ ret.op = "get_chains"
     /\ Len(ret.args[1]) = Len(ret.args[2])
     /\ \/ ret.args[1] \notin word_chainer.word_graph.word_list
        \/ ret.args[2] \notin word_chainer.word_graph.word_list
        \/ WalkLengths(ChainerGraph, ret.args[1], ret.args[2]) = {})
        => ret.raised = "none" /\ ret.paths = {}

\* get_chains returned for a start word that is not in the word set and an
\* end word that is
C6_Witness ==
    /\ ret.op = "get_chains"
    /\ Len(ret.args[1]) = Len(ret.args[2])
    /\ ret.args[1] \notin word_chainer.word_graph.word_list
    /\ ret.args[2] \in word_chainer.word_graph.word_list
    /\ ret.raised = "none"

\* C8: WordChainer.get_chains on two words of different lengths raises
\* LengthMismatchException and returns nothing, whether or not the words are
\* in the word set
C8_LengthMismatch ==
    (ret.op = "get_chains" /\ Len(ret.args[1]) # Len(ret.args[2]))
        => ret.raised = "LengthMismatchException" /\ ret.paths = {}

\* get_chains raised for a start word of the word set and a longer end word
C8_Witness ==
    /\ ret.op = "get_chains"
    /\ ret.args[1] \in word_chainer.word_graph.word_list
    /\ Len(ret.args[2]) > Len(ret.args[1])
    /\ ret.raised = "LengthMismatchException"

\* the words of a list at the positions that offend WordGraph.__init__
Offending(word_list) ==
    {i \in 1..Len(word_list) :
        ~isalpha(word_list[i]) \/ Len(word_list[i]) # Len(word_list[1])}

\* the WordGraph a constructor call built, of a WordGraph or of a WordChainer
Constructed == IF ret.op = "WordGraph" THEN word_graph ELSE word_chainer.word_graph

\* C7: construction raises EmptyWordListException iff the list is empty;
\* otherwise the first word in list order that is not alphabetic or not as long
\* as the first word decides: NonAlphaException if it is not alphabetic (also
\* when its length is wrong too), else LengthMismatchException; with no such
\* word construction succeeds, word_length is the common length and the word
\* set is the set of the list's words.
C7_Construction ==
    ret.op \in {"WordGraph", "WordChainer"}
        => /\ ret.raised = "EmptyWordListException" <=> arg = <<>>
           /\ (arg # <<>> /\ Offending(arg) # {})
                 => ret.raised = IF isalpha(arg[Min(Offending(arg))])
                                 THEN "LengthMismatchException"
                                 ELSE "NonAlphaException"
           /\ (arg # <<>> /\ Offending(arg) = {})
                 => /\ ret.raised = "none"
                    /\ Constructed.word_length = Len(arg[1])
                    /\ Constructed.word_list = Range(arg)

\* a constructor raised LengthMismatchException for its second word although
\* its third word is not alphabetic
C7_Witness ==
    /\ ret.op \in {"WordGraph", "WordChainer"}
    /\ Len(arg) = 3
    /\ Offending(arg) = {2, 3}
    /\ ~isalpha(arg[3])
    /\ ret.raised = "LengthMismatchException"

\* the number of build_word_graph calls among the calls made
RECURSIVE Builds(_)
Builds(cs) ==
    IF cs = <<>> THEN 0
    ELSE (IF Head(cs) = "build_word_graph" THEN 1 ELSE 0) + Builds(Tail(cs))

C3_Symmetric ==
    (pc = "graph" /\ calls # <<>>)
        => \A A, B \in word_graph.word_list :
              B \in Range(word_graph.graph[A]) <=> A \in Range(word_graph.graph[B])

\* C4, as claimed: neighbours(w) returns, each once, exactly the words of the
\* word set that are as long as w and differ from it at exactly one position
C4_Neighbours ==
    ret.op = "neighbours"
        => /\ NoDuplicates(ret.list)
           /\ Range(ret.list) =
                 {m \in word_graph.word_list : OneLetterApart(m, ret.args[1])}

RECURSIVE OfLength(_, _)
\* the words of a list that have n characters, in the order of the list
OfLength(word_list, n) ==
    IF word_list = <<>> THEN <<>>
    ELSE (IF Len(Head(word_list)) = n THEN <<Head(word_list)>> ELSE <<>>)
         \o OfLength(Tail(word_list), n)

\* the word lengths present in a list
LengthsOf(word_list) == {Len(word_list[i]) : i \in 1..Len(word_list)}

\* C2, as claimed: WordChainerCollection.get_chains on two words of different
\* lengths returns no path and raises nothing, with or without a bucket for
\* either length
C2_CrossLengthEmpty ==
    (ret.op = "collection.get_chains" /\ Len(ret.args[1]) # Len(ret.args[2]))
        => ret.raised = "none" /\ ret.paths = {}

\* C9: a constructed WordChainerCollection has one bucket and one WordChainer
\* for each word length present in the list, the bucket holds the list's words
\* of that length and the WordChainer is built from them; get_chains on two
\* words of one length returns what a WordChainer built from the list's words
\* of that length returns, and no path when the list has no word of that length
C9_Buckets ==
    pc = "collection"
        => /\ DOMAIN collection.word_lists = LengthsOf(arg)
           /\ DOMAIN collection.word_chainers = LengthsOf(arg)
           /\ \A n \in LengthsOf(arg) :
                 /\ collection.word_lists[n] = OfLength(arg, n)
                 /\ collection.word_chainers[n].word_graph.word_list
                        = Range(OfLength(arg, n))
           /\ (ret.op = "collection.get_chains" /\ Len(ret.args[1]) = Len(ret.args[2]))
                 => LET n == Len(ret.args[1])
                        alone == get_chains(WordChainer__init__(OfLength(arg, n)).self,
                                            ret.args[1], ret.args[2])
                    IN  /\ ret.raised = "none"
                        /\ ret.paths = IF n \in LengthsOf(arg)
                                       THEN alone.chain.paths
                                       ELSE {}

\* a collection of two buckets returned a path of more than one word
C9_Witness ==
    /\ pc = "collection"
    /\ Cardinality(DOMAIN collection.word_lists) = 2
    /\ ret.op = "collection.get_chains"
    /\ \E p \in ret.paths : Len(p) > 1

====
